---- MODULE Spec2Model ----
(***************************************************************************)
(* fr_dbuff_t (src/lib/util/dbuff.h): a bounded cursor over a caller-owned *)
(* byte region, its derivation macros FR_DBUFF_RESERVE / FR_DBUFF_MAX, the *)
(* write fr_dbuff_memcpy_in with its propagation to parent cursors, and    *)
(* the early-return helper FR_DBUFF_MEMCPY_IN, and the ephemeral copy      *)
(* FR_DBUFF_NO_ADVANCE.                                                    *)
(*                                                                         *)
(* Pointers and size_t values are PtrBits wide; all pointer and size_t     *)
(* arithmetic is taken modulo 2^PtrBits, as the machine does it.           *)
(* fr_assert() is defined outside this header: a run is made either with   *)
(* it compiled in (a failed assertion ends the program) or compiled out.   *)
(* _fr_dbuff_init never assigns the parent field, so a cursor initialised  *)
(* in a fresh object has an indeterminate parent: when it is read it is    *)
(* either NULL or a wild pointer whose dereference ends the program.       *)
(***************************************************************************)
EXTENDS Integers, Sequences, FiniteSets, TLC

\* ---- bounds of the model ------------------------------------------------
MaxCursors == 3       \* fr_dbuff_t objects that can exist at once
MaxLen     == 2       \* bytes in the caller's backing array
MaxReserve == 3       \* largest _reserve / _max argument tried
MaxWrite   == 2       \* largest inlen tried
PtrBits    == 4       \* width of a pointer and of size_t
MaxOps     == 4       \* calls made in one run

AddrSpace == 2 ^ PtrBits
Addr      == 0 .. (AddrSpace - 1)
Slots     == 0 .. (MaxCursors - 1)

\* size_t / pointer arithmetic wraps
Mod(x) == x % AddrSpace
\* conversion of a size_t to ssize_t (two's complement)
ToSSize(x) == IF x >= AddrSpace \div 2 THEN x - AddrSpace ELSE x
\* conversion of a ssize_t to size_t
ToSize(x) == Mod(x)

\* ---- memory layout -------------------------------------------------------
\* the caller's array is uint8_t R[MaxLen] at RegionBase
RegionBase == 2 * MaxReserve
Region     == RegionBase .. (RegionBase + MaxLen - 1)
\* fr_dbuff_t objects are locals and compound literals: they live on the stack,
\* above the byte region, one address per object
StackBase == AddrSpace - MaxCursors - 1
\* SIZE_MAX, the largest size_t
SizeMax == AddrSpace - 1
\* a count larger than every address of the region and smaller than the
\* address of every fr_dbuff_t object
WrapCount == RegionBase + MaxLen + 1
\* the _reserve counts a caller passes: small counts, a count that has
\* underflowed, and a count between the region and the stack
ReserveArgs == (0 .. MaxReserve) \cup {WrapCount, SizeMax}
\* the _max counts a caller passes
MaxArgs == 0 .. MaxReserve
\* fill byte of the region before any write, and the bytes a caller copies in
Fill     == MaxWrite + 1      \* a byte value no source holds
SourceOf(n) == [i \in 1 .. n |-> i]
Sources  == {SourceOf(n) : n \in 0 .. MaxWrite}
\* arguments a caller passes to fr_dbuff_init as the end of the region: one
\* before the start (reversed bounds), a part of the array, the whole array
InitEnds == {RegionBase - 1, RegionBase + MaxLen - 1, RegionBase + MaxLen}

\* values of the parent field that are not a cursor
NoParent == -1       \* NULL
Uninit   == -2       \* never assigned: indeterminate

VARIABLES
    live,       \* live[c]: slot c holds a constructed fr_dbuff_t
    start,      \* start[c]
    end,        \* end[c]
    p,          \* p[c]
    is_const,   \* is_const[c]
    parent,     \* parent[c]: a slot, NoParent or Uninit
    mem,        \* the bytes of memory: mem[a + 1] is the byte at address a
    assertsOn,  \* fr_assert() is compiled in
    halted,     \* "run", or how the program died: "assert", "segv"
    nops,       \* calls made so far
    hist,       \* hist[c]: how cursor c was made (history variable)
    last        \* the operation just performed and its result (history variable)

vars == <<live, start, end, p, is_const, parent, mem, assertsOn,
          halted, nops, hist, last>>

\* kind: how the object was last constructed; q, p0, fs0: the cursor it was
\* derived from, and that cursor's p and freespace at that moment; arg: the
\* _reserve or _max given; pure: since then only writes through this cursor
\* and cursors derived from it have happened; direct: the object was
\* initialised as a root and since then only written, directly and with
\* success; wlog: the lengths of those writes
NoHist == [kind |-> "none", q |-> NoParent, arg |-> 0, fs0 |-> 0, p0 |-> 0,
           pure |-> FALSE, direct |-> FALSE, wlog |-> <<>>]
NoLast == [op |-> "none", c |-> NoParent, view |-> NoParent, n |-> 0, arg |-> 0,
           ret |-> 0, touched |-> {}, early |-> FALSE, eret |-> 0]

\* the byte at address a
ByteAt(m, a) == m[a + 1]

\* ---- queries ---------------------------------------------------------------
fr_dbuff_freespace(c) == Mod(end[c] - p[c])
fr_dbuff_used(c)      == Mod(p[c] - start[c])
fr_dbuff_len(c)       == Mod(end[c] - start[c])

LiveSlots == {c \in Slots : live[c]}
FreeSlots == Slots \ LiveSlots
\* a compound literal or a fresh local takes the next unused object
FreshSlot == CHOOSE c \in FreeSlots : \A d \in FreeSlots : c <= d

Init ==
    /\ live = [c \in Slots |-> FALSE]
    /\ start = [c \in Slots |-> 0]
    /\ end = [c \in Slots |-> 0]
    /\ p = [c \in Slots |-> 0]
    /\ is_const = [c \in Slots |-> FALSE]
    /\ parent = [c \in Slots |-> Uninit]
    /\ mem = [a \in 1 .. AddrSpace |-> Fill]
    /\ assertsOn \in BOOLEAN
    /\ halted = "run"
    /\ nops = 0
    /\ hist = [c \in Slots |-> NoHist]
    /\ last = NoLast

\* a call is made: the program is running and the run has calls left
Call ==
    /\ halted = "run"
    /\ nops < MaxOps
    /\ nops' = nops + 1

\* every history entry stops being "only written through its own subtree"
Impure == [c \in Slots |-> [hist[c] EXCEPT !.pure = FALSE]]

\* ---- _fr_dbuff_init / fr_dbuff_init ---------------------------------------
\* the end pointer after the clamp of line 120
InitEnd(s, e) == IF e < s THEN s ELSE e

DbuffInit(out, s, e, k) ==
    /\ Call
    /\ live' = [live EXCEPT ![out] = TRUE]
    /\ start' = [start EXCEPT ![out] = s]
    /\ p' = [p EXCEPT ![out] = s]
    /\ end' = [end EXCEPT ![out] = InitEnd(s, e)]
    /\ is_const' = [is_const EXCEPT ![out] = k]
    /\ hist' = [Impure EXCEPT ![out] = [NoHist EXCEPT !.kind = "root",
                                                      !.direct = TRUE]]
    /\ last' = [NoLast EXCEPT !.op = "init", !.c = out, !.view = out, !.arg = e]
    /\ UNCHANGED <<parent, mem, assertsOn, halted>>

\* ---- FR_DBUFF_RESERVE ------------------------------------------------------
\* (size_t)(_dbuff): the address of the fr_dbuff_t object itself
DbuffAsSize(q) == StackBase + q

\* .end of the compound literal (lines 86-88)
ReserveEnd(q, r) ==
    IF DbuffAsSize(q) > r /\ Mod(end[q] - r) >= start[q]
    THEN Mod(end[q] - r)
    ELSE start[q]

\* .p of the compound literal (lines 89-91)
ReserveP(q, r) ==
    IF DbuffAsSize(q) > r /\ Mod(end[q] - r) >= p[q]
    THEN p[q]
    ELSE Mod(end[q] - r)

\* a variant of ReserveConst that makes every derived cursor writable
ReserveConst_false(q) == FALSE

\* .is_const of the compound literal (line 92)
ReserveConst(q) == is_const[q]

\* .parent of the compound literal (line 93)
ReserveParent(q) == q

\* the compound literal is a new object c holding these fields
MakeChild(c, q, r, kind, arg) ==
    /\ live' = [live EXCEPT ![c] = TRUE]
    /\ start' = [start EXCEPT ![c] = start[q]]
    /\ end' = [end EXCEPT ![c] = ReserveEnd(q, r)]
    /\ p' = [p EXCEPT ![c] = ReserveP(q, r)]
    /\ is_const' = [is_const EXCEPT ![c] = ReserveConst(q)]
    /\ parent' = [parent EXCEPT ![c] = ReserveParent(q)]
    /\ hist' = [hist EXCEPT ![c] = [NoHist EXCEPT !.kind = kind, !.q = q,
                                                  !.arg = arg,
                                                  !.fs0 = fr_dbuff_freespace(q),
                                                  !.p0 = p[q], !.pure = TRUE]]
    /\ last' = [NoLast EXCEPT !.op = kind, !.c = q, !.view = c, !.arg = arg]
    /\ UNCHANGED <<mem, assertsOn, halted>>

Reserve(q, r) ==
    /\ Call
    /\ live[q]
    /\ FreeSlots # {}
    /\ MakeChild(FreshSlot, q, r, "reserve", r)

\* ---- FR_DBUFF_MAX ----------------------------------------------------------
\* a variant of MaxTakesReserve that also reserves when exactly _max bytes are free
MaxTakesReserve_ge(q, max) == fr_dbuff_freespace(q) >= max

\* the macro's text ends in an unmatched ")"; it is read as the conditional
\* expression it spells: a reservation when more than _max bytes are free,
\* else the dbuff it was given
MaxTakesReserve(q, max) == fr_dbuff_freespace(q) > max
MaxReserveArg(q, max) == Mod(fr_dbuff_freespace(q) - max)

Max(q, max) ==
    /\ Call
    /\ live[q]
    /\ IF MaxTakesReserve(q, max)
       THEN /\ FreeSlots # {}
            /\ MakeChild(FreshSlot, q, MaxReserveArg(q, max), "max", max)
       ELSE /\ last' = [NoLast EXCEPT !.op = "max", !.c = q, !.view = q, !.arg = max]
            /\ UNCHANGED <<live, start, end, p, is_const, parent, mem,
                           assertsOn, halted, hist>>

\* ---- FR_DBUFF_NO_ADVANCE ---------------------------------------------------
\* (fr_dbuff_t[]){ *(_dbuff) }: a new object holding a copy of every field of
\* c, the parent pointer included
NoAdvance(c) ==
    /\ Call
    /\ live[c]
    /\ FreeSlots # {}
    /\ LET s == FreshSlot
       IN  /\ live' = [live EXCEPT ![s] = TRUE]
           /\ start' = [start EXCEPT ![s] = start[c]]
           /\ end' = [end EXCEPT ![s] = end[c]]
           /\ p' = [p EXCEPT ![s] = p[c]]
           /\ is_const' = [is_const EXCEPT ![s] = is_const[c]]
           /\ parent' = [parent EXCEPT ![s] = parent[c]]
           /\ hist' = [hist EXCEPT ![s] = [NoHist EXCEPT !.kind = "noadvance",
                                                         !.q = c,
                                                         !.fs0 = fr_dbuff_freespace(c),
                                                         !.p0 = p[c], !.pure = TRUE]]
           /\ last' = [NoLast EXCEPT !.op = "noadvance", !.c = c, !.view = s]
    /\ UNCHANGED <<mem, assertsOn, halted>>

\* ---- fr_dbuff_memcpy_in ------------------------------------------------------
\* fr_assert(x) is defined outside this header: compiled in, a false x ends
\* the program; compiled out, nothing happens
fr_assert_fires(x) == assertsOn /\ ~x

\* a variant of Shortfall that is one byte short
Shortfall_short(inlen, freespace) == ToSSize(Mod(0 - Mod(inlen - freespace - 1)))

\* a variant of Shortfall that drops the negation
Shortfall_positive(inlen, freespace) == ToSSize(Mod(inlen - freespace))

\* the value returned when inlen does not fit (line 227): -(inlen - freespace),
\* computed in size_t and returned as ssize_t
Shortfall(inlen, freespace) == ToSSize(Mod(0 - Mod(inlen - freespace)))

\* memcpy(dst, in, inlen) on memory m (line 229)
Memcpy(m, dst, in) ==
    [i \in 1 .. AddrSpace |->
        IF Mod(i - 1 - dst) < Len(in) THEN in[Mod(i - 1 - dst) + 1] ELSE m[i]]
\* the addresses that memcpy stores to
MemcpyDst(dst, in) == {a \in Addr : Mod(a - dst) < Len(in)}

\* dbuff->p += inlen (line 230)
Advance(pos, inlen) == Mod(pos + inlen)

\* a variant of NextUp that never continues with the parent
NextUp_none(c) == NoParent

\* the cursor the recursion of line 232 continues with
NextUp(c) == parent[c]

\* the whole call on cursor c, from the state st = [p, mem, touched, ret, halt];
\* wild says what an indeterminate parent pointer turns out to be: a wild
\* pointer (TRUE) or NULL (FALSE)
RECURSIVE fr_dbuff_memcpy_in(_, _, _, _)
fr_dbuff_memcpy_in(c, in, st, wild) ==
    LET inlen     == Len(in)
        freespace == Mod(end[c] - st.p[c])
        copied    == [st EXCEPT !.mem = Memcpy(st.mem, st.p[c], in),
                                !.touched = @ \cup {<<c, a>> : a \in MemcpyDst(st.p[c], in)},
                                !.p[c] = Advance(st.p[c], inlen)]
    IN  IF fr_assert_fires(~is_const[c]) THEN [st EXCEPT !.halt = "assert"]
        ELSE IF inlen > freespace THEN [st EXCEPT !.ret = Shortfall(inlen, freespace)]
        ELSE IF NextUp(c) = NoParent THEN [copied EXCEPT !.ret = ToSSize(inlen)]
        ELSE IF NextUp(c) = Uninit
             THEN IF wild THEN [copied EXCEPT !.halt = "segv"]
                  ELSE [copied EXCEPT !.ret = ToSSize(inlen)]
        ELSE fr_dbuff_memcpy_in(NextUp(c), in, copied, wild)

\* c and the cursors its parent pointers lead to
RECURSIVE Chain(_)
Chain(c) == IF c \in Slots THEN {c} \cup Chain(parent[c]) ELSE {c}
Ancestors(c) == (Chain(c) \ {c}) \cap Slots
\* what an indeterminate parent pointer at the top of c's chain may hold
WildChoices(c) == IF Uninit \in Chain(c) THEN BOOLEAN ELSE {FALSE}

CallState == [p |-> p, mem |-> mem, touched |-> {}, ret |-> 0, halt |-> "run"]

\* after a write on c only the cursors c descends from stay "pure"; c stays
\* "direct" when the write succeeded, and no cursor above c does
WriteHist(c, n, ok) ==
    [d \in Slots |->
        IF d = c
        THEN IF hist[d].direct /\ ok
             THEN [hist[d] EXCEPT !.wlog = Append(@, n)]
             ELSE [hist[d] EXCEPT !.direct = FALSE, !.wlog = <<>>]
        ELSE IF d \in Chain(c)
             THEN [hist[d] EXCEPT !.direct = FALSE, !.wlog = <<>>]
             ELSE [hist[d] EXCEPT !.pure = FALSE]]

\* ---- FR_DBUFF_MEMCPY_IN (and FR_DBUFF_BYTES_IN, which expands to it) ---------
\* "if (_slen < 0)" with _slen declared size_t: the test is made on the
\* unsigned value the ssize_t result was converted to
HelperReturns(ret) == ToSize(ret) < 0

\* An encoder writes in to cursor c with FR_DBUFF_MEMCPY_IN: the call of
\* fr_dbuff_memcpy_in (result ret), then the helper's test on _slen.
\* early = the encoder returned at the helper, with value eret.
Write(c, in, wild) ==
    /\ Call
    /\ live[c]
    /\ LET res == fr_dbuff_memcpy_in(c, in, CallState, wild)
       IN  /\ p' = res.p
           /\ mem' = res.mem
           /\ halted' = res.halt
           /\ last' = [NoLast EXCEPT !.op = "write", !.c = c, !.view = c,
                                     !.n = Len(in), !.ret = res.ret,
                                     !.touched = res.touched,
                                     !.early = (res.halt = "run" /\ HelperReturns(res.ret)),
                                     !.eret = ToSSize(ToSize(res.ret))]
           /\ hist' = WriteHist(c, Len(in), res.halt = "run" /\ res.ret >= 0)
    /\ UNCHANGED <<live, start, end, is_const, parent, assertsOn>>

\* ---- a sequence of writes on a fresh root cursor ------------------------------
\* fr_dbuff_memcpy_in called with each length of lens in turn on a cursor at
\* pos with end endp and no parent: TRUE when no call meets the shortfall of
\* line 227
RECURSIVE ReplayFrom(_, _, _)
ReplayFrom(lens, pos, endp) ==
    IF lens = <<>> THEN TRUE
    ELSE IF Head(lens) > Mod(endp - pos) THEN FALSE
    ELSE ReplayFrom(Tail(lens), Advance(pos, Head(lens)), endp)

\* the same calls on fr_dbuff_init(&retry, R2, (size_t)size)
Replay(lens, size) ==
    ReplayFrom(lens, RegionBase, InitEnd(RegionBase, Mod(RegionBase + size)))

\* ---- fr_dbuff_start / fr_dbuff_end -------------------------------------------
SeekTarget(c, which) == IF which = "start" THEN start[c] ELSE end[c]

Seek(c, which) ==
    /\ Call
    /\ live[c]
    /\ p' = [p EXCEPT ![c] = SeekTarget(c, which)]
    /\ hist' = [Impure EXCEPT ![c].direct = FALSE, ![c].wlog = <<>>]
    /\ last' = [NoLast EXCEPT !.op = "seek", !.c = c, !.view = c,
                              !.ret = SeekTarget(c, which)]
    /\ UNCHANGED <<live, start, end, is_const, parent, mem, assertsOn,
                   halted>>

\* the caller's first cursor is a fresh local; later calls re-initialise an
\* object that already holds a cursor (root or derived)
InitTargets == IF LiveSlots = {} THEN {FreshSlot} ELSE LiveSlots

Next ==
    \/ \E out \in InitTargets, e \in InitEnds, k \in BOOLEAN :
          DbuffInit(out, RegionBase, e, k)
    \/ \E q \in Slots, r \in ReserveArgs : Reserve(q, r)
    \/ \E q \in Slots, max \in MaxArgs : Max(q, max)
    \/ \E c \in Slots : NoAdvance(c)
    \/ \E c \in Slots, in \in Sources : \E wild \in WildChoices(c) : Write(c, in, wild)
    \/ \E c \in Slots, which \in {"start", "end"} : Seek(c, which)

Spec == Init /\ [][Next]_vars

\* ==== properties ==================================================================
Min2(a, b) == IF a <= b THEN a ELSE b
Max2(a, b) == IF a >= b THEN a ELSE b
IsWrite(l) == l.op = "write"

\* C1: every cursor, root or derived, has start <= p <= end after any
\* sequence of init, reserve, limit, write and seek calls.
C1_PositionInWindow ==
    \A c \in Slots : live[c] => (start[c] <= p[c] /\ p[c] <= end[c])

\* C2: every byte a write stores through a cursor lies at an address in that
\* cursor's [start, end).
C2_WritesInsideWindow ==
    \A t \in last.touched : start[t[1]] <= t[2] /\ t[2] < end[t[1]]

\* C3: a write of n bytes on a cursor with freespace
\* f < n yields exactly f - n, stores no byte and moves no cursor.
C3_ShortfallLeavesStateAlone ==
    [][\A c \in Slots :
          (IsWrite(last') /\ last'.c = c
             /\ last'.n > fr_dbuff_freespace(c))
          => /\ mem' = mem
             /\ p' = p
             /\ halted' = "run" => last'.ret = fr_dbuff_freespace(c) - last'.n]_vars

C3_Witness ==
    /\ last.op = "write"
    /\ halted = "run"
    /\ last.n > fr_dbuff_freespace(last.c)
    /\ last.ret = fr_dbuff_freespace(last.c) - last.n
    /\ last.ret < 0
    /\ last.touched = {}
    /\ parent[last.c] \in Slots
    /\ \E a \in Region : ByteAt(mem, a) # Fill

\* C4: a write of n <= freespace bytes on a writable cursor returns n, leaves
\* the source bytes at [old p, old p + n), sets p to old p + n and changes no
\* other byte.
C4_WriteCopiesAndAdvances ==
    [][\A c \in Slots :
          (last'.op = "write" /\ last'.c = c /\ halted' = "run" /\ ~is_const[c]
             /\ last'.n <= fr_dbuff_freespace(c))
          => /\ last'.ret = last'.n
             /\ p'[c] = p[c] + last'.n
             /\ \A a \in Addr :
                   ByteAt(mem', a) = IF p[c] <= a /\ a < p[c] + last'.n
                                     THEN SourceOf(last'.n)[a - p[c] + 1]
                                     ELSE ByteAt(mem, a)]_vars

\* C5: when a write of n bytes on a cursor succeeds, its parent and every
\* further ancestor advance by exactly n in that same call (in pointer
\* arithmetic: the new p lies n bytes after the old one).
C5_SuccessAdvancesAncestors ==
    [][(IsWrite(last') /\ halted' = "run" /\ last'.ret >= 0)
          => \A a \in Ancestors(last'.c) : Mod(p'[a] - p[a]) = last'.n]_vars

C5_Witness ==
    /\ last.op = "write"
    /\ halted = "run"
    /\ last.ret = MaxWrite
    /\ Cardinality(Ancestors(last.c)) = 2
\* C6: after any writes made only through reserve(q, r) and cursors derived
\* from it, q keeps at least min(r, its freespace at derivation) bytes free.
C6_ReservedBytesRemain ==
    \A c \in Slots :
        (live[c] /\ hist[c].kind = "reserve" /\ hist[c].pure)
        => fr_dbuff_freespace(hist[c].q) >= Min2(hist[c].arg, hist[c].fs0)

\* C7: reserve(q, r) yields start = q.start, end = max(q.end - r, q.start),
\* p = min(q.p, child.end); with r > q.len the child has no freespace.
C7_ReserveClamps ==
    [][last'.op = "reserve"
          => LET q == last'.c
                 c == last'.view
                 r == last'.arg
             IN  /\ start'[c] = start[q]
                 /\ end'[c] = Max2(end[q] - r, start[q])
                 /\ p'[c] = Min2(p[q], end'[c])
                 /\ r > fr_dbuff_len(q) => Mod(end'[c] - p'[c]) = 0]_vars

\* C8: limit(q, max) yields a view with freespace min(q.freespace, max), the
\* view reserve(q, max(0, q.freespace - max)) would give, and writes through
\* it never advance q by more than max bytes in total.
C8_LimitCapsFreespace ==
    [][/\ last'.op = "max"
          => LET q  == last'.c
                 v  == last'.view
                 fs == fr_dbuff_freespace(q)
                 r  == Max2(0, fs - last'.arg)
             IN  /\ Mod(end'[v] - p'[v]) = Min2(fs, last'.arg)
                 /\ start'[v] = start[q]
                 /\ end'[v] = ReserveEnd(q, r)
                 /\ p'[v] = ReserveP(q, r)
       /\ \A c \in Slots :
             (live'[c] /\ hist'[c].kind = "max" /\ hist'[c].pure)
             => p'[hist'[c].q] - hist'[c].p0 <= hist'[c].arg]_vars

\* C9: when the write inside FR_DBUFF_MEMCPY_IN returns a negative shortfall,
\* the enclosing encoder returns at once with that same value.
C9_HelperReturnsShortfall ==
    (IsWrite(last) /\ halted = "run" /\ last.ret < 0)
    => (last.early /\ last.eret = last.ret)

\* C10 as stated: every cursor reserve(q, r) or limit(q, max) returns is a
\* cursor other than q whose parent is q.
C10_DerivedIsDistinctChild ==
    last.op \in {"reserve", "max"}
    => (last.view # last.c /\ live[last.view] /\ parent[last.view] = last.c)

\* C10 as amended: reserve(q, r), and limit(q, max) with max < q.freespace,
\* return a cursor other than q whose parent is q; limit(q, max) with
\* max >= q.freespace returns q itself.
C10_DerivedIsChildOrSelf ==
    /\ (last.op = "reserve" \/ (last.op = "max" /\ fr_dbuff_freespace(last.c) > last.arg))
       => (last.view # last.c /\ live[last.view] /\ parent[last.view] = last.c)
    /\ (last.op = "max" /\ fr_dbuff_freespace(last.c) <= last.arg)
       => last.view = last.c

C10_Witness ==
    /\ last.op = "max"
    /\ last.view = last.c
    /\ parent[last.c] \in Slots
    /\ fr_dbuff_freespace(last.c) > 0

\* ---- seeks, read-only cursors, root construction --------------------------------
Derived(c) == hist[c].kind \in {"reserve", "max"}

\* C11: a seek to start or end on a cursor that has a parent ends in a failure
\* and leaves that cursor's p as it was.
C11_SeekOnDerivedRejected ==
    [][\A c \in Slots :
          (last'.op = "seek" /\ last'.c = c /\ Derived(c) /\ parent[c] \in Slots)
          => (halted' # "run" /\ p'[c] = p[c])]_vars

\* C12: a cursor derived by reserve or limit is read-only exactly when the
\* cursor it was derived from is, and a write through a read-only cursor,
\* with fr_assert the fail-fast check it is meant to be, ends the program at
\* the assertion: nothing is returned, no byte and no position changes.
C12_ReadOnlyWriteAsserts ==
    [][/\ (last'.op \in {"reserve", "max"} /\ last'.view # last'.c)
          => is_const'[last'.view] = is_const[last'.c]
       /\ \A c \in Slots :
             (IsWrite(last') /\ last'.c = c /\ is_const[c] /\ assertsOn)
             => (halted' = "assert" /\ mem' = mem /\ p' = p)]_vars

C12_Witness ==
    /\ last.op = "write"
    /\ halted = "assert"
    /\ last.n > fr_dbuff_freespace(last.c)
    /\ Cardinality(Ancestors(last.c)) = 2
    /\ \A a \in Chain(last.c) \cap Slots : is_const[a]
    /\ \E a \in Ancestors(last.c) : hist[a].kind = "root"

\* C13: fr_dbuff_init leaves out with p = start, end = max(start, supplied
\* end) and no parent, whatever out held before, and a write on a cursor made
\* by fr_dbuff_init moves no other cursor.
C13_InitMakesRoot ==
    [][/\ last'.op = "init"
          => LET out == last'.c
             IN  /\ p'[out] = start'[out]
                 /\ end'[out] = Max2(start'[out], last'.arg)
                 /\ parent'[out] = NoParent
       /\ \A c \in Slots :
             (IsWrite(last') /\ last'.c = c /\ hist[c].kind = "root")
             => \A d \in Slots \ {c} : p'[d] = p[d]]_vars

\* ---- retry sizing ------------------------------------------------------------------
\* the write just made on root cursor c, so far only written directly and
\* with success, fell short
FirstShortfall(c) ==
    /\ IsWrite(last') /\ last'.c = c /\ halted' = "run" /\ last'.ret < 0
    /\ hist[c].kind = "root" /\ hist[c].direct

\* C14 as stated: when a write on a root cursor with `used` bytes written
\* returns -k, the same writes, the failed one included, meet no shortfall on
\* a fresh region of used + k bytes.
C14_RetryWithUsedPlusK ==
    [][\A c \in Slots :
          FirstShortfall(c)
          => Replay(Append(hist[c].wlog, last'.n),
                    fr_dbuff_used(c) + (0 - last'.ret))]_vars

\* C14 as amended: when a write on a root cursor over len bytes returns -k,
\* the same writes, the failed one included, meet no shortfall on a fresh
\* region of len + k bytes.
C14_RetryWithLenPlusK ==
    [][\A c \in Slots :
          FirstShortfall(c)
          => Replay(Append(hist[c].wlog, last'.n),
                    fr_dbuff_len(c) + (0 - last'.ret))]_vars

C14_Witness ==
    /\ last.op = "write"
    /\ halted = "run"
    /\ last.ret = 0 - MaxWrite
    /\ hist[last.c].kind = "root"
    /\ fr_dbuff_used(last.c) = MaxWrite
    /\ fr_dbuff_freespace(last.c) = 0
    /\ ByteAt(mem, RegionBase) # Fill

\* ---- windows of derived cursors -------------------------------------------------
\* the step derives a new cursor from q
Derives(q) == last'.op \in {"reserve", "max"} /\ last'.c = q /\ last'.view # q

\* C15: the window [c.start, c.end) of a cursor c derived from q does not
\* begin below the p that q had at the derivation, so that c addresses no
\* byte q had already used (the upper side of the window is C16). Stated
\* for the derivations the clamps of FR_DBUFF_RESERVE are not involved in:
\* q has start <= p <= end and the count is at most q's len.
C15_ChildWindowInParentSlice ==
    [][\A q \in Slots :
          (/\ Derives(q)
           /\ start[q] <= p[q] /\ p[q] <= end[q]
           /\ last'.arg <= fr_dbuff_len(q)
           /\ start'[last'.view] < end'[last'.view])
          => p[q] <= start'[last'.view]]_vars

\* C16: a cursor c derived from q has c.start >= q.start and c.end <= q.end
\* when it is made, for any reserve count, and derivations and writes change
\* no cursor's start or end afterwards.
C16_ChildBoundsInParentBounds ==
    [][/\ \A q \in Slots :
             Derives(q)
             => (start[q] <= start'[last'.view] /\ end'[last'.view] <= end[q])
       /\ last'.op \in {"reserve", "max", "write"}
             => \A c \in LiveSlots : start'[c] = start[c] /\ end'[c] = end[c]]_vars

\* C17: reserve(c, 0) and limit(c, c.freespace) yield a view with the start,
\* end and p of c.
C17_IdentityDerivations ==
    [][\A c \in Slots :
          (/\ last'.c = c
           /\ \/ last'.op = "reserve" /\ last'.arg = 0
              \/ last'.op = "max" /\ last'.arg = fr_dbuff_freespace(c))
          => /\ start'[last'.view] = start[c]
             /\ end'[last'.view] = end[c]
             /\ p'[last'.view] = p[c]]_vars

\* ---- chains ------------------------------------------------------------------------
\* c is a derived cursor on a chain built by init, reserve and limit, and
\* since each cursor of the chain was derived every write was made through it
\* or a cursor below it
PureChain(c) ==
    /\ Derived(c)
    /\ \A d \in Chain(c) \cap Slots :
          \/ Derived(d) /\ hist[d].pure
          \/ hist[d].kind = "root"

\* no cursor was derived from c
Deepest(c) == \A d \in LiveSlots : hist[d].q # c

\* C18: on a chain built by init, reserve and limit, a write that passes the
\* freespace check at the cursor it is issued on does not return a negative
\* result.
C18_ChainWriteAllOrNothing ==
    [][\A c \in Slots :
          (/\ IsWrite(last') /\ last'.c = c /\ halted' = "run"
           /\ PureChain(c)
           /\ last'.n <= fr_dbuff_freespace(c))
          => last'.ret >= 0]_vars

\* the write that copies at the cursor it is issued on and, at every cursor
\* above, makes the same checks and only advances the position
RECURSIVE AdvanceOnly(_, _, _)
AdvanceOnly(c, inlen, st) ==
    LET freespace == Mod(end[c] - st.p[c])
        advanced  == [st EXCEPT !.p[c] = Advance(st.p[c], inlen)]
    IN  IF fr_assert_fires(~is_const[c]) THEN [st EXCEPT !.halt = "assert"]
        ELSE IF inlen > freespace THEN [st EXCEPT !.ret = Shortfall(inlen, freespace)]
        ELSE IF NextUp(c) \in Slots THEN AdvanceOnly(NextUp(c), inlen, advanced)
        ELSE [advanced EXCEPT !.ret = ToSSize(inlen)]

CopyOnce(c, in, st) ==
    LET inlen     == Len(in)
        freespace == Mod(end[c] - st.p[c])
        copied    == [st EXCEPT !.mem = Memcpy(st.mem, st.p[c], in),
                                !.p[c] = Advance(st.p[c], inlen)]
    IN  IF fr_assert_fires(~is_const[c]) THEN [st EXCEPT !.halt = "assert"]
        ELSE IF inlen > freespace THEN [st EXCEPT !.ret = Shortfall(inlen, freespace)]
        ELSE IF NextUp(c) \in Slots THEN AdvanceOnly(NextUp(c), inlen, copied)
        ELSE [copied EXCEPT !.ret = ToSSize(inlen)]

\* C19: on a chain built by init, reserve and limit in which only the deepest
\* derived cursor is written, a write leaves the memory, every position and
\* the return value that the copy-once, advance-only write would leave.
C19_RecopyEqualsAdvanceOnly ==
    [][\A c \in Slots :
          (/\ IsWrite(last') /\ last'.c = c /\ halted' = "run"
           /\ PureChain(c) /\ Deepest(c))
          => LET alt == CopyOnce(c, SourceOf(last'.n), CallState)
             IN  /\ mem' = alt.mem
                 /\ p' = alt.p
                 /\ last'.ret = alt.ret]_vars

\* C20: a write through the ephemeral copy FR_DBUFF_NO_ADVANCE(c) leaves
\* c.p and the position of every ancestor of c unchanged.
C20_NoAdvanceFreezesChain ==
    [][\A e \in Slots :
          (IsWrite(last') /\ last'.c = e /\ hist[e].kind = "noadvance")
          => LET c == hist[e].q
             IN  /\ p'[c] = p[c]
                 /\ \A a \in Ancestors(c) : p'[a] = p[a]]_vars
====
